---- MODULE Spec2Model ----
(***************************************************************************)
(* A model of chrono24: the retrying fetcher of chrono24/session.py, the   *)
(* construction of a Chrono24 query session and the page walker of         *)
(* chrono24/api.py (Chrono24._search and what it calls).                    *)
(*                                                                         *)
(* The remote site and the transport are the environment: every HTTP       *)
(* request ends in one of Outcomes, every fetched results page is rendered *)
(* as one of Renders.  The listing nodes of page p are Node(p, 1) ..       *)
(* Node(p, PageNodes(p)), in document order.                               *)
(***************************************************************************)
EXTENDS Integers, Sequences, FiniteSets, TLC

VARIABLES
    http,       \* the running get_response call (session.py 57-107)
    session,    \* the Chrono24 object: url, count (api.py 54-63)
    load,       \* the running _get_listings_with_attempts call (api.py 186-207)
    gen,        \* the _search generator (api.py 87-117)
    siteTotal,  \* the number of listings the site holds for the query
    yielded,    \* the records handed to the caller of the stream, in order
    loads,      \* the results pages the stream asked _get_listings for, in order
    faulted,    \* TRUE once a request failed or a page was rendered without listings
    outstanding,\* the number of HTTP requests sent and not yet answered
    job         \* the running Filters construction or record extraction

vars == <<http, session, load, gen, siteTotal, yielded, loads, faulted,
          outstanding, job>>

-----------------------------------------------------------------------------
(* Program constants *)

page_size == 120
DEFAULT_MAX_ATTEMPTS == 8
LISTINGS_MAX_ATTEMPTS == 8

(* Bounds of the model *)

\* get_response is called directly with max_attempts in 0..MaxN
MaxN == 8
\* the site holds at most MaxPages full pages and one listing
MaxPages == 3
\* consecutive site pages overlap by Drift listing nodes
Drift == 1

-----------------------------------------------------------------------------
(* Exception classes *)

\* the base class of an exception class
Base(c) ==
    CASE c = "NoListingsFoundException" -> "Exception"
      [] c = "RequestException" -> "Exception"
      [] c = "tenacity.RetryError" -> "Exception"
      [] c = "requests.RequestException" -> "OSError"
      [] c = "requests.ConnectionError" -> "requests.RequestException"
      [] c = "requests.HTTPError" -> "requests.RequestException"
      [] c = "requests.Timeout" -> "requests.RequestException"
      [] c = "json.JSONDecodeError" -> "ValueError"
      [] c = "KeyError" -> "LookupError"
      [] c = "Exception" -> "BaseException"
      [] OTHER -> "Exception"

RECURSIVE IsSubclass(_, _)
IsSubclass(c, d) ==
    \/ c = d
    \/ c # "BaseException" /\ IsSubclass(Base(c), d)

\* `except (types)` catches exception e
Catches(types, e) == \E t \in types : IsSubclass(e, t)

-----------------------------------------------------------------------------
(* session.py: the retrying fetcher *)

\* what one requests.get(...) followed by raise_for_status() ends in
Outcomes == {"ok", "requests.ConnectionError", "requests.HTTPError",
             "requests.Timeout", "TypeError"}

\* the outcomes that are transient failures of the transport or the site
Transient == {"requests.ConnectionError", "requests.HTTPError", "requests.Timeout"}

\* the kind of an outcome: "ok", "transient" or "other"
OutcomeKind(o) ==
    IF o = "ok" THEN "ok" ELSE IF o \in Transient THEN "transient" ELSE "other"

RETRY_TYPES == {"requests.ConnectionError", "requests.HTTPError",
                "requests.RequestException"}

retry_if_exception(e) == TRUE

\* retry=retry_if_exception_type(RETRY_TYPES)
retry_if_exception_type(e) == Catches(RETRY_TYPES, e)

stop_after_attempt_late(attempt_number, max_attempts) == attempt_number > max_attempts

stop_after_attempt(attempt_number, max_attempts) == attempt_number >= max_attempts

IdleHttp ==
    [pc |-> "idle", caller |-> "none", url |-> [kind |-> "none", n |-> 0],
     max_attempts |-> 0, attempt_number |-> 0, requests |-> 0, retries |-> 0,
     transient |-> 0, last |-> "none", response |-> 0, exc |-> "none"]

\* get_response(url, max_attempts=N) is entered
get_response(caller, url, N) ==
    [IdleHttp EXCEPT !.pc = "attempt", !.caller = caller, !.url = url,
                     !.max_attempts = N, !.attempt_number = 1]

_log_retry_attempt_twice(h) == [h EXCEPT !.retries = @ + 2]

\* before_sleep: one retry event
_log_retry_attempt(h) == [h EXCEPT !.retries = @ + 1]

get_response_except_none(e) == e

\* the except clause of get_response
get_response_except(e) ==
    IF Catches({"tenacity.RetryError", "requests.HTTPError"}, e)
    THEN "RequestException"
    ELSE e

\* the call frame after the attempt in flight ended in outcome o
_get_tenacity_wrapped_response(h, o) ==
    LET seen == [h EXCEPT !.last = OutcomeKind(o),
                          !.transient = IF o \in Transient THEN @ + 1 ELSE @]
    IN  IF o = "ok"
        THEN [seen EXCEPT !.pc = "returned", !.response = h.requests]
        ELSE IF ~retry_if_exception_type(o)
        THEN [seen EXCEPT !.pc = "raised", !.exc = get_response_except(o)]
        ELSE IF stop_after_attempt(h.attempt_number, h.max_attempts)
        THEN [seen EXCEPT !.pc = "raised",
                          !.exc = get_response_except("tenacity.RetryError")]
        ELSE [_log_retry_attempt(seen) EXCEPT !.pc = "attempt",
                                              !.attempt_number = @ + 1]

requests_get_async(h) == h.pc \in {"attempt", "inflight"}

\* requests.get blocks until the response is there: an attempt sends its
\* request only when the frame is at the start of an attempt
requests_get(h) == h.pc = "attempt"

\* requests.get is called: the request is outstanding
HttpSend ==
    /\ requests_get(http)
    /\ http' = [http EXCEPT !.pc = "inflight", !.requests = @ + 1]
    /\ outstanding' = outstanding + 1
    /\ UNCHANGED <<session, load, gen, siteTotal, yielded, loads, faulted, job>>

\* the outstanding request returns or fails
HttpReceive ==
    /\ http.pc = "inflight"
    /\ \E o \in Outcomes :
          /\ http' = _get_tenacity_wrapped_response(http, o)
          /\ faulted' = (faulted \/ o # "ok")
    /\ outstanding' = outstanding - 1
    /\ UNCHANGED <<session, load, gen, siteTotal, yielded, loads, job>>

-----------------------------------------------------------------------------
(* api.py: the site as the walker sees it *)

\* limit=None
None == -1

Truthy_zero(x) == x # None

\* Python truth of an int or None
Truthy(x) == x # None /\ x # 0

\* the totals a query may have
Counts == {1} \cup {k * page_size + d : k \in 1..MaxPages, d \in {0, 1}}

\* the limits a search() stream may be given
Limits == {None, 0, 1, 3, page_size, page_size + 1, page_size + 30}

\* the limits a search_detail() stream may be given
DetailLimits == {None, 3, page_size, page_size + 1}

\* the streams a caller may ask for
StreamInputs == ({"standard"} \X Limits) \cup ({"detail"} \X DetailLimits)

\* the number of listing nodes the site has on results page p
PageNodes(total, p) ==
    LET remaining == total - (p - 1) * page_size
    IN  IF remaining <= 0 THEN 0
        ELSE IF remaining < page_size THEN remaining
        ELSE page_size

\* the i-th listing node of results page p, in document order
Node(p, i) == (p - 1) * page_size + i - Drift * (p - 1)

\* how the window.metaData script of a fetched page may look
MetaKinds == {"ok", "absent", "nomatch", "badjson", "nokeys", "nonint"}

\* a fetched results page: its metadata and whether div#wt-watches is there
Renders(total) ==
    {[meta |-> m, numResult |-> n, container |-> c] :
        m \in MetaKinds, n \in {total, 0, -1}, c \in BOOLEAN}

\* the page as the site means to serve it
Honest(r, total) == r.meta = "ok" /\ r.numResult = total /\ r.container

\* what the environment did to the last try of a page load
RenderEnv(r) ==
    IF r.meta # "ok" THEN r.meta
    ELSE IF r.numResult <= 0 THEN "zero"
    ELSE IF ~r.container THEN "no_container"
    ELSE "page"

-----------------------------------------------------------------------------
(* api.py: Listings *)

_get_total_count_nonneg(r) ==
    CASE r.meta = "absent" -> [exc |-> "AttributeError", count |-> 0]
      [] r.meta = "nomatch" -> [exc |-> "NoListingsFoundException", count |-> 0]
      [] r.meta = "badjson" -> [exc |-> "json.JSONDecodeError", count |-> 0]
      [] r.meta = "nokeys" -> [exc |-> "KeyError", count |-> 0]
      [] r.meta = "nonint" -> [exc |-> "ValueError", count |-> 0]
      [] OTHER -> IF r.numResult >= 0
                  THEN [exc |-> "none", count |-> r.numResult]
                  ELSE [exc |-> "NoListingsFoundException", count |-> 0]

\* Listings._get_total_count(html): the count, or the exception raised
_get_total_count(r) ==
    CASE r.meta = "absent" -> [exc |-> "AttributeError", count |-> 0]
      [] r.meta = "nomatch" -> [exc |-> "NoListingsFoundException", count |-> 0]
      [] r.meta = "badjson" -> [exc |-> "json.JSONDecodeError", count |-> 0]
      [] r.meta = "nokeys" -> [exc |-> "KeyError", count |-> 0]
      [] r.meta = "nonint" -> [exc |-> "ValueError", count |-> 0]
      [] OTHER -> IF r.numResult > 0
                  THEN [exc |-> "none", count |-> r.numResult]
                  ELSE [exc |-> "NoListingsFoundException", count |-> 0]

htmls_reversed(page, nodes, i) == Node(page, nodes - i + 1)

\* the i-th element a fresh listings.htmls generator yields
htmls(page, nodes, i) == Node(page, i)

\* next(listings.htmls) on a fresh generator: the exception raised, if any
ProbeListings(r, nodes) ==
    IF ~r.container THEN "AttributeError"
    ELSE IF nodes = 0 THEN "StopIteration"
    ELSE "none"

\* the try body of _get_listings_with_attempts on a fetched page:
\* Listings(html), then next(listings.htmls)
TryListings(r, nodes) ==
    LET c == _get_total_count(r)
    IN  IF c.exc # "none" THEN c
        ELSE [exc |-> ProbeListings(r, nodes), count |-> c.count]

-----------------------------------------------------------------------------
(* api.py: Chrono24 *)

NoSession == [pc |-> "none", url |-> 0, count |-> 0, exc |-> "none", env |-> "none"]
NoLoad == [pc |-> "none", ctx |-> "none", page |-> 0, attempts |-> 0,
           max_attempts |-> 0, count |-> 0, nodes |-> 0, exc |-> "none",
           env |-> "none", bare |-> FALSE]
NoGen == [pc |-> "none", kind |-> "none", limit |-> 0, page_number |-> 0,
          stop |-> 0, pos |-> 0, nodes |-> 0, count |-> 0,
          num_listings_yielded |-> 0, fetched |-> 0, exc |-> "none",
          env |-> "none"]

PageUrl(p) == [kind |-> "page", n |-> p]

_total_page_count_floor(count) == count \div page_size

\* Chrono24._total_page_count
_total_page_count(count) == count \div page_size + 1

\* _get_listings(showPage=p) up to its first get_html
_get_listings(ctx, p) ==
    [NoLoad EXCEPT !.pc = "fetching", !.ctx = ctx, !.page = p,
                   !.max_attempts = LISTINGS_MAX_ATTEMPTS, !.bare = TRUE]

\* what the environment did when a get_response call raised
HttpEnv(h) == IF h.last = "transient" THEN "exhausted" ELSE "other"

except_Exception(e) == Catches({"Exception"}, e)

\* `except AttributeError` of _get_listings_with_attempts
except_AttributeError(e) == Catches({"AttributeError"}, e)

attempts_left_inclusive(attempts, max_attempts) == attempts <= max_attempts

\* `while attempts < max_attempts`
attempts_left(attempts, max_attempts) == attempts < max_attempts

\* the except clause and loop test of _get_listings_with_attempts, after the
\* try body ended in exception e (or "none"); TRUE in .again asks for a new fetch
_get_listings_with_attempts(l, e, count, nodes, env) ==
    IF e = "none"
    THEN [again |-> FALSE,
          frame |-> [l EXCEPT !.pc = "returned", !.count = count,
                              !.nodes = nodes, !.env = env]]
    ELSE IF except_AttributeError(e)
    THEN IF attempts_left(l.attempts + 1, l.max_attempts)
         THEN [again |-> TRUE,
               frame |-> [l EXCEPT !.attempts = @ + 1, !.env = env]]
         ELSE [again |-> FALSE,
               frame |-> [l EXCEPT !.attempts = @ + 1, !.pc = "returned_none",
                                   !.env = env]]
    ELSE [again |-> FALSE, frame |-> [l EXCEPT !.pc = "raised", !.exc = e, !.env = env]]

\* Chrono24(query): the request that resolves the search URL
Construct ==
    /\ session.pc = "none"
    /\ http.pc = "idle"
    /\ session' = [session EXCEPT !.pc = "resolving"]
    /\ http' = get_response("init", [kind |-> "query", n |-> 0], DEFAULT_MAX_ATTEMPTS)
    /\ UNCHANGED <<load, gen, siteTotal, yielded, loads, faulted, outstanding, job>>

\* self.url is set and self._get_listings() starts
InitResolved ==
    /\ session.pc = "resolving"
    /\ http.pc = "returned"
    /\ http.caller = "init"
    /\ session' = [session EXCEPT !.pc = "counting", !.url = 1]
    /\ load' = _get_listings("init", 1)
    /\ http' = get_response("load", PageUrl(1), DEFAULT_MAX_ATTEMPTS)
    /\ UNCHANGED <<gen, siteTotal, yielded, loads, faulted, outstanding, job>>

\* the first request raised: the constructor raises
InitResolveFailed ==
    /\ session.pc = "resolving"
    /\ http.pc = "raised"
    /\ http.caller = "init"
    /\ session' = [session EXCEPT !.pc = "failed", !.exc = http.exc, !.env = HttpEnv(http)]
    /\ http' = IdleHttp
    /\ UNCHANGED <<load, gen, siteTotal, yielded, loads, faulted, outstanding, job>>

\* get_html returned a results page to _get_listings_with_attempts
LoadResponse ==
    /\ load.pc = "fetching"
    /\ http.pc = "returned"
    /\ http.caller = "load"
    /\ \E r \in Renders(siteTotal) :
          LET nodes == PageNodes(siteTotal, load.page)
              t == TryListings(r, nodes)
              res == _get_listings_with_attempts(load, t.exc, t.count, nodes, RenderEnv(r))
          IN  /\ load' = [res.frame EXCEPT
                          !.bare = /\ @
                                   /\ ~r.container
                                   /\ res.frame.pc \in {"fetching", "returned_none"}]
              /\ http' = IF res.again
                         THEN get_response("load", PageUrl(load.page), DEFAULT_MAX_ATTEMPTS)
                         ELSE IdleHttp
              /\ faulted' = (faulted \/ ~Honest(r, siteTotal))
    /\ UNCHANGED <<session, gen, siteTotal, yielded, loads, outstanding, job>>

\* get_html raised inside _get_listings_with_attempts
LoadFetchFailed ==
    /\ load.pc = "fetching"
    /\ http.pc = "raised"
    /\ http.caller = "load"
    /\ LET res == _get_listings_with_attempts(load, http.exc, 0, 0, HttpEnv(http))
       IN  /\ load' = [res.frame EXCEPT !.bare = FALSE]
           /\ http' = IF res.again
                      THEN get_response("load", PageUrl(load.page), DEFAULT_MAX_ATTEMPTS)
                      ELSE IdleHttp
    /\ UNCHANGED <<session, gen, siteTotal, yielded, loads, faulted, outstanding, job>>

\* self.count = self._get_listings().count
InitCounted ==
    /\ session.pc = "counting"
    /\ load.ctx = "init"
    /\ load.pc \in {"returned", "returned_none", "raised"}
    /\ session' =
          CASE load.pc = "returned" ->
                  [session EXCEPT !.pc = "ready", !.count = load.count,
                                  !.env = load.env]
            [] load.pc = "returned_none" ->
                  [session EXCEPT !.pc = "failed", !.exc = "AttributeError",
                                  !.env = load.env]
            [] OTHER ->
                  [session EXCEPT !.pc = "failed", !.exc = load.exc, !.env = load.env]
    /\ load' = NoLoad
    /\ UNCHANGED <<http, gen, siteTotal, yielded, loads, faulted, outstanding, job>>

-----------------------------------------------------------------------------
(* api.py: Chrono24._search, a generator *)

StandardJson(node) == [id |-> node, detailed |-> FALSE]
DetailedJson(node) == [id |-> node, detailed |-> TRUE]

LimitPassed(limit, num_listings_yielded) ==
    Truthy(limit) /\ num_listings_yielded > limit

\* `if limit and num_listings_yielded >= limit`
LimitReached(limit, num_listings_yielded) ==
    Truthy(limit) /\ num_listings_yielded >= limit

\* an exception leaving the generator frame: StopIteration becomes RuntimeError
\* (PEP 479, every Python from 3.7 on)
GenRaise(e) == IF e = "StopIteration" THEN "RuntimeError" ELSE e

shared_htmls(consumed) == consumed + 1

\* the position the walker's `for listing_html in listings.htmls` starts at,
\* after the probe next(listings.htmls) took `consumed` elements of its own
\* generator: every access of the property makes a new generator
fresh_htmls(consumed) == 1

detail_fetches_twice(fetched) == fetched + 2

\* get_html(listing_url) of _get_detailed_listing_as_json: one more detail fetch
detail_fetches(fetched) == fetched + 1

self_recounted(s, listings) == [s EXCEPT !.count = listings.count]

\* the Chrono24 object after _search took the Listings of a page: _search and
\* _get_listings assign to no attribute of self
self_after_get_listings(s, listings) == s

PageExhausted_early(g) == g.pos >= g.nodes

\* `for listing_html in listings.htmls` has no element left to take
PageExhausted(g) == g.pos > g.nodes

\* the generator g at the head of `for listing_html in listings.htmls`, about
\* to take element g.pos: runs to the next yield, request or end
Continue(g) ==
    IF ~PageExhausted(g)
    THEN IF LimitReached(g.limit, g.num_listings_yielded)
         THEN /\ gen' = [g EXCEPT !.pc = "done"]
              /\ http' = IdleHttp
              /\ UNCHANGED <<yielded, loads>>
              /\ load' = NoLoad
         ELSE IF g.kind = "standard"
         THEN /\ gen' = [g EXCEPT !.pc = "suspended"]
              /\ yielded' = Append(yielded, StandardJson(htmls(g.page_number, g.nodes, g.pos)))
              /\ http' = IdleHttp
              /\ load' = NoLoad
              /\ UNCHANGED loads
         ELSE /\ gen' = [g EXCEPT !.pc = "detailing",
                                  !.fetched = detail_fetches(@)]
              /\ http' = get_response("detail",
                                      [kind |-> "detail",
                                       n |-> htmls(g.page_number, g.nodes, g.pos)],
                                      DEFAULT_MAX_ATTEMPTS)
              /\ load' = NoLoad
              /\ UNCHANGED <<yielded, loads>>
    ELSE IF g.page_number + 1 >= g.stop
    THEN /\ gen' = [g EXCEPT !.pc = "done"]
         /\ http' = IdleHttp
         /\ load' = NoLoad
         /\ UNCHANGED <<yielded, loads>>
    ELSE /\ gen' = [g EXCEPT !.pc = "loading", !.page_number = @ + 1,
                             !.pos = 0, !.nodes = 0]
         /\ load' = _get_listings("stream", g.page_number + 1)
         /\ http' = get_response("load", PageUrl(g.page_number + 1), DEFAULT_MAX_ATTEMPTS)
         /\ loads' = Append(loads, g.page_number + 1)
         /\ UNCHANGED yielded

\* search(limit) or search_detail(limit) is called: a generator, not yet run
StartStream ==
    /\ session.pc = "ready"
    /\ gen.pc = "none"
    /\ \E inp \in StreamInputs :
          gen' = [NoGen EXCEPT !.pc = "created", !.kind = inp[1], !.limit = inp[2]]
    /\ UNCHANGED <<http, session, load, siteTotal, yielded, loads, faulted, outstanding, job>>

\* the first next(): page 1 is loaded again
PullFirst ==
    /\ gen.pc = "created"
    /\ http.pc = "idle"
    /\ gen' = [gen EXCEPT !.pc = "loading", !.page_number = 1,
                          !.stop = _total_page_count(session.count) + 1]
    /\ load' = _get_listings("stream", 1)
    /\ http' = get_response("load", PageUrl(1), DEFAULT_MAX_ATTEMPTS)
    /\ loads' = Append(loads, 1)
    /\ UNCHANGED <<session, siteTotal, yielded, faulted, outstanding, job>>

\* next() on the generator suspended at its yield
Pull ==
    /\ gen.pc = "suspended"
    /\ Continue([gen EXCEPT !.num_listings_yielded = @ + 1, !.pos = @ + 1])
    /\ UNCHANGED <<session, siteTotal, faulted, outstanding, job>>

\* _get_listings came back to _search
Loaded ==
    /\ gen.pc = "loading"
    /\ load.ctx = "stream"
    /\ load.pc \in {"returned", "returned_none", "raised"}
    /\ CASE load.pc = "returned" ->
               Continue([gen EXCEPT !.nodes = load.nodes, !.count = load.count,
                                    !.pos = fresh_htmls(1), !.env = load.env])
         [] load.pc = "returned_none" ->
               /\ gen' = [gen EXCEPT !.pc = "raised", !.exc = GenRaise("AttributeError"),
                                     !.env = load.env]
               /\ load' = NoLoad
               /\ UNCHANGED <<http, yielded, loads>>
         [] OTHER ->
               /\ gen' = [gen EXCEPT !.pc = "raised", !.exc = GenRaise(load.exc),
                                     !.env = load.env]
               /\ load' = NoLoad
               /\ UNCHANGED <<http, yielded, loads>>
    /\ session' = self_after_get_listings(session, load)
    /\ UNCHANGED <<siteTotal, faulted, outstanding, job>>

\* get_html(listing_url) returned: the detail record is yielded
DetailFetched ==
    /\ gen.pc = "detailing"
    /\ http.pc = "returned"
    /\ http.caller = "detail"
    /\ gen' = [gen EXCEPT !.pc = "suspended"]
    /\ yielded' = Append(yielded, DetailedJson(htmls(gen.page_number, gen.nodes, gen.pos)))
    /\ http' = IdleHttp
    /\ UNCHANGED <<session, load, siteTotal, loads, faulted, outstanding, job>>

\* get_html(listing_url) raised: the generator raises
DetailFailed ==
    /\ gen.pc = "detailing"
    /\ http.pc = "raised"
    /\ http.caller = "detail"
    /\ gen' = [gen EXCEPT !.pc = "raised", !.exc = GenRaise(http.exc),
                          !.env = HttpEnv(http)]
    /\ http' = IdleHttp
    /\ UNCHANGED <<session, load, siteTotal, yielded, loads, faulted, outstanding, job>>

-----------------------------------------------------------------------------
(* The query session and one stream over it *)

\* no Filters construction and no record extraction is running
NoJob == [pc |-> "none"]

Init ==
    /\ http = IdleHttp
    /\ session = NoSession
    /\ load = NoLoad
    /\ gen = NoGen
    /\ siteTotal \in {0} \cup Counts
    /\ yielded = <<>>
    /\ loads = <<>>
    /\ faulted = FALSE
    /\ outstanding = 0
    /\ job = NoJob

Next ==
    \/ Construct \/ InitResolved \/ InitResolveFailed
    \/ HttpSend \/ HttpReceive
    \/ LoadResponse \/ LoadFetchFailed \/ InitCounted
    \/ StartStream \/ PullFirst \/ Pull \/ Loaded
    \/ DetailFetched \/ DetailFailed

Spec == Init /\ [][Next]_vars

-----------------------------------------------------------------------------
(* get_response called on its own, as the tests of session.py do *)

DirectCall ==
    /\ http.pc = "idle"
    /\ session.pc = "direct"
    /\ \E N \in 0..MaxN :
          http' = get_response("direct", [kind |-> "test", n |-> 0], N)
    /\ UNCHANGED <<session, load, gen, siteTotal, yielded, loads, faulted, outstanding, job>>

\* the caller has taken the response or the exception
DirectDone ==
    /\ http.pc \in {"returned", "raised"}
    /\ http.caller = "direct"
    /\ http' = IdleHttp
    /\ UNCHANGED <<session, load, gen, siteTotal, yielded, loads, faulted, outstanding, job>>

InitFetch ==
    /\ http = IdleHttp
    /\ session = [NoSession EXCEPT !.pc = "direct"]
    /\ load = NoLoad
    /\ gen = NoGen
    /\ siteTotal = 0
    /\ yielded = <<>>
    /\ loads = <<>>
    /\ faulted = FALSE
    /\ outstanding = 0
    /\ job = NoJob

NextFetch == DirectCall \/ HttpSend \/ HttpReceive \/ DirectDone

SpecFetch == InitFetch /\ [][NextFetch]_vars

-----------------------------------------------------------------------------
(* Properties of the fetcher, under SpecFetch *)

C2_SuccessAfterRetries ==
    (http.last = "ok" /\ http.transient < http.max_attempts)
        => /\ http.pc = "returned"
           /\ http.requests = http.transient + 1
           /\ http.response = http.transient + 1
           /\ http.retries = http.transient

C2_Witness ==
    /\ http.pc = "returned"
    /\ http.max_attempts = 8
    /\ http.transient = 2
    /\ http.response = 3
    /\ http.retries = 2

-----------------------------------------------------------------------------
(* Properties of the query session and its stream, under Spec *)

C4_ZeroResultsConstruction ==
    (session.pc \in {"counting", "ready", "failed"}
     /\ (session.env = "zero" \/ (load.ctx = "init" /\ load.env = "zero")))
        => /\ session.pc \in {"counting", "failed"}
           /\ session.pc = "counting" => (load.pc = "raised"
                                          /\ load.exc = "NoListingsFoundException")
           /\ session.pc = "failed" => session.exc = "NoListingsFoundException"
           /\ session.count = 0
           /\ gen.pc = "none"

C4_Witness ==
    /\ session.pc = "failed"
    /\ session.env = "zero"
    /\ session.exc = "NoListingsFoundException"
    /\ siteTotal = 0

\* C5: a constructor that fails on a first results page whose window.metaData
\* block is absent or unparseable fails with NoListingsFoundException.
C5_MetadataFoldsIntoNoListings ==
    (session.pc = "failed"
     /\ session.env \in {"absent", "nomatch", "badjson", "nokeys", "nonint"})
        => session.exc = "NoListingsFoundException"

C7_LimitPagesFetched ==
    (gen.pc = "done" /\ Truthy(gen.limit) /\ gen.limit < session.count /\ ~faulted)
        => Len(loads) = (gen.limit + page_size - 1) \div page_size

\* C8: a search() stream without limit over count > 0 listings, the site
\* serving min(page_size, remaining) listings per page and no request
\* failing, ends normally with exactly count records.
C8_Completeness ==
    (gen.pc \in {"done", "raised"} /\ gen.kind = "standard" /\ gen.limit = None
     /\ session.count > 0 /\ ~faulted)
        => (gen.pc = "done" /\ Len(yielded) = session.count)

\* C9: the stream asks for results pages 1, 2, ... in ascending order, each
\* once, never above floor(count / page_size) + 1; without limit it ends
\* normally only after the last of them; without failure each page load is
\* one fetch; a count of 361 gives pages 1, 2, 3, 4.
C9_PagesAscendingOnce ==
    /\ \A i \in 1..Len(loads) : loads[i] = i
    /\ Len(loads) <= session.count \div page_size + 1
    /\ (gen.pc = "done" /\ gen.limit = None)
          => Len(loads) = session.count \div page_size + 1
    /\ (load.ctx = "stream" /\ load.pc = "returned" /\ ~faulted) => load.attempts = 0
    /\ (gen.pc = "done" /\ gen.limit = None /\ session.count = 361)
          => loads = <<1, 2, 3, 4>>

C9_Witness ==
    /\ gen.pc = "done"
    /\ gen.limit = None
    /\ ~faulted
    /\ session.count = 361
    /\ loads = <<1, 2, 3, 4>>

\* C10: the k-th record of the stream is the record of the k-th listing node
\* of the site's pages taken in page order and, within a page, in document
\* order: no node is skipped, reordered or dropped as a duplicate.
C10_PageThenDocumentOrder ==
    \A k \in 1..Len(yielded) :
        yielded[k].id = Node(((k - 1) \div page_size) + 1, ((k - 1) % page_size) + 1)

C10_Witness ==
    /\ Len(yielded) > page_size
    /\ \E j \in 1..page_size : yielded[j].id = yielded[page_size + 1].id

-----------------------------------------------------------------------------
(* Properties of the transport and of the laziness of the stream, under Spec *)

\* C13: at most one HTTP request is outstanding at any time: a request is
\* sent only after the answer to the one before it has arrived, whoever of
\* the constructor, a page load or a detail fetch asked for it.
C13_OneRequestOutstanding ==
    /\ outstanding \in {0, 1}
    /\ outstanding = 1 <=> http.pc = "inflight"

\* a detail request is outstanding in the middle of a stream
C13_Witness ==
    /\ outstanding = 1
    /\ http.caller = "detail"
    /\ http.requests >= 2
    /\ Len(yielded) >= 1

\* C14: the stream is lazy.  Page n > 1 is asked for only when all the
\* listings of the pages before it have been yielded and the caller pulled
\* again; a caller that stopped after k records has caused the load of no
\* page beyond the one holding record k; every record is handed over before
\* the next listing is touched.
C14_LazyPages ==
    /\ gen.pc \in {"none", "created"} => loads = <<>> /\ yielded = <<>>
    /\ gen.pc = "loading" =>
          /\ Len(loads) = gen.page_number
          /\ Len(yielded) = (gen.page_number - 1) * page_size
          /\ gen.num_listings_yielded = Len(yielded)
    /\ gen.pc = "suspended" =>
          /\ Len(yielded) >= 1
          /\ Len(loads) = ((Len(yielded) - 1) \div page_size) + 1
          /\ gen.num_listings_yielded = Len(yielded) - 1
    /\ gen.pc = "detailing" =>
          /\ Len(loads) = (Len(yielded) \div page_size) + 1
          /\ gen.num_listings_yielded = Len(yielded)
          /\ http.url.n = Node(Len(loads), (Len(yielded) % page_size) + 1)

\* page 2 is being loaded, after the 120 listings of page 1 were yielded
C14_Witness ==
    /\ gen.pc = "loading"
    /\ gen.page_number = 2
    /\ Len(yielded) = page_size
    /\ loads = <<1, 2>>

\* C15: a page load whose page lacks the listing container on every one of
\* its 8 tries fails with NoListingsFoundException.
C15_ContainerMissingRaisesNoListings ==
    (load.bare /\ load.attempts = LISTINGS_MAX_ATTEMPTS) =>
        (load.pc = "raised" /\ load.exc = "NoListingsFoundException")

-----------------------------------------------------------------------------
(* Properties of the fetcher, under SpecFetch *)

\* C20: an attempt that raises an exception outside the retried types is not
\* retried: the exception leaves get_response as it is, not converted to
\* RequestException, with no further request and no retry event for it.
C20_NonTransientNotRetried ==
    http.last = "other" =>
        /\ http.pc = "raised"
        /\ http.exc = "TypeError"
        /\ http.requests = http.transient + 1
        /\ http.retries = http.transient

\* the first attempt of a call with attempts to spare raised TypeError
C20_Witness ==
    /\ http.last = "other"
    /\ http.pc = "raised"
    /\ http.max_attempts >= 2
    /\ http.requests = 1
    /\ http.retries = 0

-----------------------------------------------------------------------------
(* filters.py: the filter catalog and the suggestions for an unknown key *)

\* largest number of keys in a to_apply list
MaxKeys == 2
\* min_year and max_year range over FirstYear .. FirstYear + YearSpan
YearSpan == 1
FirstYear == 2000

\* get_close_matches: at most n=3 matches (the default), of ratio >= 0.5,
\* the cutoff written as a fraction
CLOSE_MATCHES_N == 3
CUTOFF_NUM == 1
CUTOFF_DEN == 2

\* a URL parameter "name=value"
Param(name, value) == [name |-> name, value |-> value]

\* Filters.all_filters, restricted to five of its keys
all_filters ==
    [k \in {"steel", "new", "used", "newest", "price_asc"} |->
        CASE k = "steel" -> Param("caseMaterials", "4")
          [] k = "new" -> Param("condition", "101")
          [] k = "used" -> Param("usedOrNew", "used")
          [] k = "newest" -> Param("sortorder", "5")
          [] OTHER -> Param("sortorder", "1")]

all_filter_keys == DOMAIN all_filters

\* the keys a caller may pass: catalog keys, misspellings and the empty string
KeySamples == all_filter_keys \cup {"steal", "news", "zzz", ""}

\* the characters of a key
Chars(k) ==
    CASE k = "steel" -> <<"s", "t", "e", "e", "l">>
      [] k = "new" -> <<"n", "e", "w">>
      [] k = "used" -> <<"u", "s", "e", "d">>
      [] k = "newest" -> <<"n", "e", "w", "e", "s", "t">>
      [] k = "price_asc" -> <<"p", "r", "i", "c", "e", "_", "a", "s", "c">>
      [] k = "steal" -> <<"s", "t", "e", "a", "l">>
      [] k = "news" -> <<"n", "e", "w", "s">>
      [] k = "zzz" -> <<"z", "z", "z">>
      [] OTHER -> <<>>

\* the code point order of the characters in use
Ord(c) ==
    LET alphabet == <<"_", "a", "c", "d", "e", "i", "l", "n", "p", "r", "s",
                      "t", "u", "w", "z">>
    IN  CHOOSE i \in 1..Len(alphabet) : alphabet[i] = c

\* Python's a > b on strings
RECURSIVE StrGreater(_, _)
StrGreater(a, b) ==
    IF a = <<>> THEN FALSE
    ELSE IF b = <<>> THEN TRUE
    ELSE IF Head(a) # Head(b) THEN Ord(Head(a)) > Ord(Head(b))
    ELSE StrGreater(Tail(a), Tail(b))

\* difflib.SequenceMatcher.find_longest_match over a[alo..ahi-1], b[blo..bhi-1]:
\* <<i, j, k>> with a[i..i+k-1] = b[j..j+k-1], k largest, then i least, then j least
find_longest_match(a, b, alo, ahi, blo, bhi) ==
    LET blocks == {m \in (alo..(ahi - 1)) \X (blo..(bhi - 1)) \X (1..(ahi - alo)) :
                      /\ m[1] + m[3] <= ahi
                      /\ m[2] + m[3] <= bhi
                      /\ \A d \in 0..(m[3] - 1) : a[m[1] + d] = b[m[2] + d]}
    IN  IF blocks = {} THEN <<alo, blo, 0>>
        ELSE CHOOSE m \in blocks :
                \A o \in blocks :
                    \/ m[3] > o[3]
                    \/ m[3] = o[3] /\ m[1] < o[1]
                    \/ m[3] = o[3] /\ m[1] = o[1] /\ m[2] <= o[2]

\* the number of matched characters (the sum of get_matching_blocks)
RECURSIVE matches(_, _, _, _, _, _)
matches(a, b, alo, ahi, blo, bhi) ==
    LET m == find_longest_match(a, b, alo, ahi, blo, bhi)
    IN  IF m[3] = 0 THEN 0
        ELSE m[3] + matches(a, b, alo, m[1], blo, m[2])
                  + matches(a, b, m[1] + m[3], ahi, m[2] + m[3], bhi)

\* SequenceMatcher(None, x, word).ratio() = 2 * M / T as the pair <<2 * M, T>>
ratio(x, word) ==
    LET a == Chars(x)
        b == Chars(word)
    IN  <<2 * matches(a, b, 1, Len(a) + 1, 1, Len(b) + 1), Len(a) + Len(b)>>

\* (score, x) > (score, y), the order heapq.nlargest sorts by
Better(x, y, word) ==
    LET rx == ratio(x, word)
        ry == ratio(y, word)
    IN  \/ rx[1] * ry[2] > ry[1] * rx[2]
        \/ rx[1] * ry[2] = ry[1] * rx[2] /\ StrGreater(Chars(x), Chars(y))

RECURSIVE nlargest(_, _, _)
nlargest(n, S, word) ==
    IF n = 0 \/ S = {} THEN <<>>
    ELSE LET best == CHOOSE x \in S : \A y \in S \ {x} : Better(x, y, word)
         IN  <<best>> \o nlargest(n - 1, S \ {best}, word)

\* difflib.get_close_matches(word, possibilities, n, cutoff)
get_close_matches(word, possibilities, n, cutoff_num, cutoff_den) ==
    nlargest(n,
             {x \in possibilities :
                 ratio(x, word)[1] * cutoff_den >= cutoff_num * ratio(x, word)[2]},
             word)

_fuzzy_match_no_cutoff(query) ==
    get_close_matches(query, all_filter_keys, CLOSE_MATCHES_N, 0, 1)

\* Filters._fuzzy_match(query)
_fuzzy_match(query) ==
    get_close_matches(query, all_filter_keys, CLOSE_MATCHES_N, CUTOFF_NUM, CUTOFF_DEN)

-----------------------------------------------------------------------------
(* filters.py: Filters.__init__, apply and parameters *)

\* the to_apply arguments: a string, a list or a tuple of keys, or an int
ToApplyArgs ==
    {[type |-> "str", items |-> <<k>>] : k \in KeySamples}
    \cup {[type |-> t, items |-> ks] :
             t \in {"list", "tuple"},
             ks \in UNION {[1..n -> KeySamples] : n \in 0..MaxKeys}}
    \cup {[type |-> "int", items |-> <<>>]}

\* min_year and max_year
YearArgs == {None} \cup (FirstYear..(FirstYear + YearSpan))

\* the elements of a list
Elements(seq) == {seq[i] : i \in 1..Len(seq)}

\* the type switch of __init__: self.to_apply, or TypeError
to_apply_set(arg) ==
    IF arg.type = "str"
    THEN [exc |-> "none",
          keys |-> IF arg.items[1] # "" THEN {arg.items[1]} ELSE {}]
    ELSE IF arg.type \in {"list", "tuple"}
    THEN [exc |-> "none", keys |-> Elements(arg.items)]
    ELSE [exc |-> "TypeError", keys |-> {}]

NoMessage == [key |-> "", suggestions |-> <<>>]

\* the text of the ValueError: the key and the suggestions, in order
InvalidKeyMessage(filter_key) ==
    [key |-> filter_key, suggestions |-> _fuzzy_match(filter_key)]

has_sortorder_never(filters) == FALSE

\* [f for f in self.filters if f.startswith("sortorder=")] is not empty
has_sortorder(filters) == \E f \in filters : f.name = "sortorder"

\* Filters.apply: the ways it may end; a set is iterated in any order, so
\* any of the unknown keys may be the one that raises
apply(to_apply) ==
    LET unknown == {k \in to_apply : k \notin DOMAIN all_filters}
        added == {all_filters[k] : k \in to_apply \ unknown}
    IN  IF unknown # {}
        THEN {[exc |-> "ValueError", message |-> InvalidKeyMessage(k), filters |-> {}] :
                  k \in unknown}
        ELSE {[exc |-> "none", message |-> NoMessage,
               filters |-> IF has_sortorder(added)
                           THEN added
                           ELSE added \cup {Param("sortorder", "5")}]}

\* Filters(to_apply, min_year, max_year) returns an object or raises
Filters_init ==
    /\ job.pc = "call"
    /\ LET s == to_apply_set(job.to_apply)
       IN  IF s.exc # "none"
           THEN job' = [job EXCEPT !.pc = "raised", !.exc = s.exc]
           ELSE \E res \in apply(s.keys) :
                   job' = [job EXCEPT
                             !.pc = IF res.exc = "none" THEN "constructed"
                                    ELSE "raised",
                             !.keys = s.keys, !.exc = res.exc,
                             !.message = res.message, !.filters = res.filters]
    /\ UNCHANGED <<http, session, load, gen, siteTotal, yielded, loads, faulted,
                   outstanding>>

\* the sequences that list the set S once each
Orders(S) ==
    {o \in [1..Cardinality(S) -> S] : \A i, j \in 1..Cardinality(S) : o[i] = o[j] => i = j}

\* the separator of the joined string
Amp == Param("&", "")

\* "&".join(tokens)
RECURSIVE Join(_)
Join(tokens) ==
    IF Len(tokens) <= 1 THEN tokens
    ELSE <<Head(tokens), Amp>> \o Join(Tail(tokens))

\* range(lo, hi)
range(lo, hi) == [i \in 1..(IF hi > lo THEN hi - lo ELSE 0) |-> lo + i - 1]

years_exclusive(min_year, max_year) ==
    LET r == range(min_year, max_year)
    IN  [i \in 1..Len(r) |-> Param("year", r[i])]

\* [f"year={y}" for y in range(self.min_year, self.max_year + 1)]
years(min_year, max_year) ==
    LET r == range(min_year, max_year + 1)
    IN  [i \in 1..Len(r) |-> Param("year", r[i])]

\* Filters.parameters, the set self.filters iterated in the order given
parameters(filters_in_order, min_year, max_year) ==
    IF min_year = None \/ max_year = None
    THEN Join(filters_in_order)
    ELSE Join(filters_in_order) \o <<Amp>> \o Join(years(min_year, max_year))

\* the parameters property is read
Parameters ==
    /\ job.pc = "constructed"
    /\ \E o \in Orders(job.filters) :
          job' = [job EXCEPT !.pc = "rendered",
                             !.parameters = parameters(o, job.min_year, job.max_year)]
    /\ UNCHANGED <<http, session, load, gen, siteTotal, yielded, loads, faulted,
                   outstanding>>

InitFilters ==
    /\ http = IdleHttp
    /\ session = NoSession
    /\ load = NoLoad
    /\ gen = NoGen
    /\ siteTotal = 0
    /\ yielded = <<>>
    /\ loads = <<>>
    /\ faulted = FALSE
    /\ outstanding = 0
    /\ \E a \in ToApplyArgs, y1 \in YearArgs, y2 \in YearArgs :
          job = [pc |-> "call", to_apply |-> a, min_year |-> y1, max_year |-> y2,
                 keys |-> {}, filters |-> {}, exc |-> "none",
                 message |-> NoMessage, parameters |-> <<>>]

NextFilters == Filters_init \/ Parameters

SpecFilters == InitFilters /\ [][NextFilters]_vars

-----------------------------------------------------------------------------
(* Properties of Filters, under SpecFilters *)

\* C16: a Filters construction that is given a key outside the catalog,
\* alone or next to valid keys, raises ValueError and leaves no Filters
\* object; the message names one of the unknown keys and carries its
\* suggestions in order of closeness, none at all for a key that is close to
\* no catalog key.
C16_UnknownKeyRaisesValueError ==
    LET requested == to_apply_set(job.to_apply).keys
        unknown == requested \ {"steel", "new", "used", "newest", "price_asc"}
    IN  (job.pc # "call" /\ unknown # {}) =>
           /\ job.pc = "raised"
           /\ job.exc = "ValueError"
           /\ job.filters = {}
           /\ job.message.key \in unknown
           /\ job.message.suggestions =
                 CASE job.message.key = "steal" -> <<"steel">>
                   [] job.message.key = "news" -> <<"new", "newest">>
                   [] OTHER -> <<>>

\* a valid key mixed with a key that is close to no catalog key
C16_Witness ==
    /\ job.pc = "raised"
    /\ job.to_apply = [type |-> "list", items |-> <<"steel", "zzz">>]
    /\ job.exc = "ValueError"
    /\ job.message = [key |-> "zzz", suggestions |-> <<>>]

\* C17: after a successful construction, filters is the set of the catalog
\* parameters of the distinct requested keys, with "sortorder=5" added
\* exactly when none of them is a sortorder parameter: no key gives
\* {"sortorder=5"}, one non-sort key two entries, two non-sort keys three,
\* and a repeated key counts once.
C17_FiltersSet ==
    job.pc \in {"constructed", "rendered"} =>
        LET requested == to_apply_set(job.to_apply).keys
            params == {all_filters[k] : k \in requested}
            sorted == \E f \in params : f.name = "sortorder"
            default == [name |-> "sortorder", value |-> "5"]
        IN  /\ job.filters = params \cup (IF sorted THEN {} ELSE {default})
            /\ requested = {} => job.filters = {default}
            /\ ~sorted => Cardinality(job.filters) = Cardinality(requested) + 1
            /\ (~sorted /\ Len(job.to_apply.items) = 2
                        /\ job.to_apply.items[1] = job.to_apply.items[2]) =>
                  Cardinality(job.filters) = 2

\* two distinct non-sort keys give three entries
C17_Witness ==
    /\ job.pc = "constructed"
    /\ job.to_apply = [type |-> "list", items |-> <<"steel", "used">>]
    /\ Cardinality(job.filters) = 3

\* C18: with min_year <= max_year both given, the parameters string is the
\* applied filter parameters and one token year=Y for each Y of
\* min_year..max_year and no other, each once, separated by '&'; with
\* min_year or max_year missing it is the filter parameters only.
C18_ParametersString ==
    job.pc = "rendered" =>
        LET p == job.parameters
            given == job.min_year # None /\ job.max_year # None
            yrs == IF given
                   THEN {[name |-> "year", value |-> y] : y \in job.min_year..job.max_year}
                   ELSE {}
        IN  (~given \/ job.min_year <= job.max_year) =>
               /\ Len(p) = 2 * (Cardinality(job.filters) + Cardinality(yrs)) - 1
               /\ \A i \in 1..Len(p) : (i % 2 = 0) <=> (p[i].name = "&")
               /\ {p[i] : i \in {j \in 1..Len(p) : j % 2 = 1}} = job.filters \cup yrs

\* one filter, the default sort order and the years 2000 and 2001
C18_Witness ==
    /\ job.pc = "rendered"
    /\ job.to_apply = [type |-> "str", items |-> <<"steel">>]
    /\ job.min_year = FirstYear
    /\ job.max_year = FirstYear + 1
    /\ Len(job.parameters) = 7

-----------------------------------------------------------------------------
(* api.py: text of tags and attributes *)

(* A string is the sequence of its pieces: words, phrases, " " and "\n".    *)
(* A tag is there or not (find returned None) and has a text and           *)
(* attributes.  A value of a record is a string or a list of strings.      *)

BASE_URL == <<"https://chrono24.com">>
NULL_VALUE == <<"null">>

Whitespace == {" ", "\n"}

\* a piece that ends in a blank, without that blank
TrimRight(piece) ==
    CASE piece = "Anticipated delivery: " -> "Anticipated delivery:"
      [] piece = "This dealer is from " -> "This dealer is from"
      [] piece = "This private seller is from " -> "This private seller is from"
      [] OTHER -> piece

RECURSIVE lstrip(_)
lstrip(text) ==
    IF text # <<>> /\ Head(text) \in Whitespace THEN lstrip(Tail(text)) ELSE text

RECURSIVE rstrip(_)
rstrip(text) ==
    IF text = <<>> THEN text
    ELSE IF text[Len(text)] \in Whitespace THEN rstrip(SubSeq(text, 1, Len(text) - 1))
    ELSE [text EXCEPT ![Len(text)] = TrimRight(@)]

\* str.strip()
strip(text) == rstrip(lstrip(text))

\* str.replace(old, new) for a piece old; new is a string
RECURSIVE replace(_, _, _)
replace(text, old, new) ==
    IF text = <<>> THEN <<>>
    ELSE (IF Head(text) = old THEN new ELSE <<Head(text)>>)
         \o replace(Tail(text), old, new)

\* old in text, for a piece old
Contains(text, old) == \E i \in 1..Len(text) : text[i] = old

\* the lower case of a piece
LowerPiece(piece) ==
    CASE piece = "Location" -> "location"
      [] piece = "Price" -> "price"
      [] piece = "Case" -> "case"
      [] piece = "Available" -> "available"
      [] piece = "Try it on" -> "try it on"
      [] piece = "Square_Size_" -> "square_size_"
      [] piece = "https://IMG/" -> "https://img/"
      [] OTHER -> piece

\* str.lower()
lower(text) == [i \in 1..Len(text) |-> LowerPiece(text[i])]

\* find(...) returned None
Missing == [present |-> FALSE, text |-> <<>>, attrs |-> <<>>]

\* a tag with a text and no attribute
Tag(text) == [present |-> TRUE, text |-> text, attrs |-> <<>>]

\* a tag with the one attribute attr
TagWith(attr, value) == [present |-> TRUE, text |-> <<>>, attrs |-> [a \in {attr} |-> value]]

\* get_html_tag_as_text(html_tag)
get_html_tag_as_text(html_tag) ==
    LET html_tag_text == IF html_tag.present THEN strip(html_tag.text) ELSE <<>>
    IN  IF html_tag_text # <<>> THEN html_tag_text ELSE NULL_VALUE

\* get_html_tag_attribute_as_text(html_tag, attr)
get_html_tag_attribute_as_text(html_tag, attr) ==
    LET html_tag_text ==
            IF html_tag.present
            THEN strip(IF attr \in DOMAIN html_tag.attrs THEN html_tag.attrs[attr]
                       ELSE <<>>)
            ELSE <<>>
    IN  IF html_tag_text # <<>> THEN html_tag_text ELSE NULL_VALUE

\* the values of a record
Str(text) == [type |-> "str", v |-> text]
List(items) == [type |-> "list", v |-> items]

-----------------------------------------------------------------------------
(* api.py: StandardListing *)

\* re.search(RE_PATTERN_COMMA_SEPARATED_NUM, text): the first piece that is a
\* number of one to three digits with groups of three after commas
RECURSIVE re_search_number(_)
re_search_number(text) ==
    IF text = <<>> THEN <<>>
    ELSE IF Head(text) \in {"25", "1,234"} THEN <<Head(text)>>
    ELSE re_search_number(Tail(text))

\* StandardListing._shipping_price
_shipping_price(html) ==
    LET shipping_price_text == get_html_tag_as_text(html.shipping)
        match == re_search_number(shipping_price_text)
    IN  <<"$">> \o (IF match # <<>> THEN match ELSE <<"0">>)

\* the names in merchant_names with their tooltip phrases
merchant_names == {"Dealer", "Private Seller"}

to_replace(merchant_name) ==
    IF merchant_name = "Dealer" THEN "This dealer is from "
    ELSE "This private seller is from "

\* StandardListing._location_and_merchant_name, the set merchant_names
\* iterated with `first` first
_location_and_merchant_name(html, first) ==
    LET location == get_html_tag_attribute_as_text(html.tooltip, "data-content")
        hits == {m \in merchant_names : Contains(location, to_replace(m))}
    IN  IF hits = {} THEN <<location, NULL_VALUE>>
        ELSE LET merchant_name == IF first \in hits THEN first
                                  ELSE CHOOSE m \in hits : TRUE
             IN  <<replace(location, to_replace(merchant_name), <<>>), <<merchant_name>>>>

\* StandardListing._image_urls
_image_urls(html) ==
    [i \in 1..Len(html.carousel) |->
        replace(lower(get_html_tag_attribute_as_text(html.carousel[i],
                                                     "data-lazy-sweet-spot-master-src")),
                "square_size_", <<"ExtraLarge">>)]

\* StandardListing._badge
_badge(html) == get_html_tag_as_text(html.badge)

StandardListing_json_partial(html, first) ==
    (<<"id">> :> Str(get_html_tag_attribute_as_text(html, "data-article-id")))
    @@ (<<"url">> :> Str(BASE_URL \o get_html_tag_attribute_as_text(html, "href")))

\* StandardListing.json
StandardListing_json(html, first) ==
    (<<"id">> :> Str(get_html_tag_attribute_as_text(html, "data-article-id")))
    @@ (<<"url">> :> Str(BASE_URL \o get_html_tag_attribute_as_text(html, "href")))
    @@ (<<"manufacturer">> :>
            Str(get_html_tag_attribute_as_text(html, "data-manufacturer")))
    @@ (<<"certification", "_", "status">> :>
            Str(get_html_tag_attribute_as_text(html, "data-watch-certification-status")))
    @@ (<<"title">> :> Str(get_html_tag_as_text(html.title)))
    @@ (<<"description">> :> Str(get_html_tag_as_text(html.description)))
    @@ (<<"price">> :> Str(get_html_tag_as_text(html.price)))
    @@ (<<"shipping", "_", "price">> :> Str(_shipping_price(html)))
    @@ (<<"location">> :> Str(_location_and_merchant_name(html, first)[1]))
    @@ (<<"merchant", "_", "name">> :> Str(_location_and_merchant_name(html, first)[2]))
    @@ (<<"badge">> :> Str(_badge(html)))
    @@ (<<"image", "_", "urls">> :> List(_image_urls(html)))

\* the attributes of a listing node
ListingAttrs == {"data-article-id", "href", "data-manufacturer",
                 "data-watch-certification-status"}

\* the listing nodes the site may serve
ListingNodes ==
    {[present |-> TRUE, text |-> <<>>,
      attrs |-> [a \in there |-> IF a = "data-article-id" THEN id
                                ELSE IF a = "href" THEN <<"/rolex/x.htm">>
                                ELSE <<"Rolex">>],
      title |-> title, description |-> other, price |-> other, badge |-> other,
      shipping |-> shipping, tooltip |-> tooltip, carousel |-> carousel] :
        there \in SUBSET ListingAttrs,
        id \in {<<>>, <<" ">>, <<"123">>},
        title \in {Missing, Tag(<<"\n", " ">>), Tag(<<" ", "Rolex", " ", "Sub", "\n">>)},
        other \in {Missing, Tag(<<"Top">>)},
        shipping \in {Missing, Tag(<<"Free", " ", "shipping">>),
                      Tag(<<"+", " ", "$", "1,234", " ", "for", " ", "shipping">>)},
        tooltip \in {Missing, Tag(<<"Japan">>),
                     TagWith("data-content", <<"Japan">>),
                     TagWith("data-content", <<"This dealer is from ", "Japan">>),
                     TagWith("data-content",
                             <<"This dealer is from ", "This private seller is from ",
                               "Japan">>)},
        carousel \in {<<>>, <<Missing>>,
                      <<TagWith("data-lazy-sweet-spot-master-src",
                                <<"https://IMG/", "Square_Size_", "1.jpg">>),
                        Tag(<<>>)>>}}

-----------------------------------------------------------------------------
(* api.py: DetailedListing *)

\* largest number of rows in the first table of a detail page
MaxRows == 2

Merge_update_only(a, b) == b

Merge_keep_first(a, b) == a @@ b

\* {**a, **b}
Merge(a, b) == b @@ a

\* str.replace(" ", "_"), also inside a phrase
replace_blanks(text) ==
    [i \in 1..Len(text) |->
        CASE text[i] = " " -> "_"
          [] text[i] = "try it on" -> "try_it_on"
          [] OTHER -> text[i]]

\* DetailedListing._tidy_product_detail
_tidy_product_detail(product_detail) ==
    strip(replace(replace(product_detail, "\n", <<" ">>), "Try it on", <<>>))

\* the rows of one tbody from row idx on (idx counts from 1), product_details
\* so far in acc: the dict, or IndexError from detail[0] of a row without td
RECURSIVE scan_details(_, _, _)
scan_details(details, idx, acc) ==
    IF idx > Len(details) THEN [exc |-> "none", dict |-> acc]
    ELSE LET detail == details[idx]
         IN  IF Len(detail) = 0 THEN [exc |-> "IndexError", dict |-> acc]
             ELSE LET detail_key ==
                          replace_blanks(lower(get_html_tag_as_text(detail[1])))
                  IN  IF Len(detail) >= 2
                      THEN scan_details(details, idx + 1,
                               (detail_key :> Str(_tidy_product_detail(
                                                     get_html_tag_as_text(detail[2]))))
                               @@ acc)
                      ELSE IF idx # Len(details) /\ Len(details[idx + 1]) = 1
                      THEN scan_details(details, idx + 1,
                               (detail_key :> Str(_tidy_product_detail(
                                            get_html_tag_as_text(details[idx + 1][1]))))
                               @@ acc)
                      ELSE scan_details(details, idx + 1, acc)

\* DetailedListing._product_details: table by table
RECURSIVE _product_details(_, _)
_product_details(tables, acc) ==
    IF tables = <<>> THEN [exc |-> "none", dict |-> acc]
    ELSE LET res == scan_details(Head(tables), 1, acc)
         IN  IF res.exc # "none" THEN res
             ELSE _product_details(Tail(tables), res.dict)

\* payment_keywords, in sorted order
payment_keywords == <<"affirm", "american-express", "bankwire", "mastercard", "visa">>

\* DetailedListing._available_payments; an icon of the model names at most
\* one keyword
_available_payments(page) ==
    LET payment_class(payment) ==
            IF "data-lazy-class" \in DOMAIN payment.attrs
            THEN payment.attrs["data-lazy-class"]
            ELSE IF "class" \in DOMAIN payment.attrs THEN payment.attrs["class"]
            ELSE <<>>
        found == {k \in Elements(payment_keywords) :
                     \E i \in 1..Len(page.payments) :
                         Contains(payment_class(page.payments[i]), k)}
    IN  SelectSeq(payment_keywords, LAMBDA k : k \in found)

\* DetailedListing._anticipated_delivery
_anticipated_delivery(page) ==
    replace(get_html_tag_as_text(page.delivery), "Anticipated delivery: ", <<>>)

\* DetailedListing._merchant_badges: the list, or TypeError from
\* BeautifulSoup(None) for a badge button without data-content
RECURSIVE _merchant_badges(_)
_merchant_badges(buttons) ==
    IF buttons = <<>> THEN [exc |-> "none", list |-> <<>>]
    ELSE IF "data-content" \notin DOMAIN Head(buttons).attrs
    THEN [exc |-> "TypeError", list |-> <<>>]
    ELSE LET badge_text == Head(buttons).span
             rest == _merchant_badges(Tail(buttons))
         IN  IF rest.exc # "none" THEN rest
             ELSE [exc |-> "none",
                   list |-> (IF badge_text.present
                             THEN <<get_html_tag_as_text(badge_text)>>
                             ELSE <<>>) \o rest.list]

\* DetailedListing._logistical_details, given the badges
_logistical_details(page, badges) ==
    (<<"availabe", "_", "payments">> :> List(_available_payments(page)))
    @@ (<<"anticipated", "_", "delivery">> :> Str(_anticipated_delivery(page)))
    @@ (<<"merchant", "_", "name">> :> Str(get_html_tag_as_text(page.merchant)))
    @@ (<<"merchant", "_", "rating">> :> Str(get_html_tag_as_text(page.rating)))
    @@ (<<"merchant", "_", "reviews">> :> Str(get_html_tag_as_text(page.reviews)))
    @@ (<<"merchant", "_", "badges">> :> List(badges))

\* DetailedListing.json: the dict, or the exception raised on the way
DetailedListing_json(page) ==
    LET product == _product_details(page.tables, <<>>)
        badges == _merchant_badges(page.badges)
    IN  IF product.exc # "none" THEN [exc |-> product.exc, dict |-> <<>>]
        ELSE IF badges.exc # "none" THEN [exc |-> badges.exc, dict |-> <<>>]
        ELSE [exc |-> "none",
              dict |-> Merge(product.dict, _logistical_details(page, badges.list))]

\* Chrono24._get_detailed_listing_as_json, given the fetched detail page
_get_detailed_listing_as_json(listing_html, page, first) ==
    LET listing == StandardListing_json(listing_html, first)
        detailed_listing == DetailedListing_json(page)
    IN  IF detailed_listing.exc # "none" THEN detailed_listing
        ELSE [exc |-> "none", dict |-> Merge(listing, detailed_listing.dict)]

-----------------------------------------------------------------------------
(* The record extraction on its own: one listing node, one detail page *)

\* the cells of the spec tables
CellSamples ==
    {Tag(<<"Location">>), Tag(<<" ">>), Tag(<<"40", " ", "mm", "\n", "Try it on">>)}

\* a row: the td cells of a tr, none for a row of th cells
RowSamples == UNION {[1..n -> CellSamples] : n \in 0..2}

\* a badge button: its data-content attribute, parsed, holds the span or not
BadgeButton(attrs, span) ==
    [present |-> TRUE, text |-> <<>>, attrs |-> attrs, span |-> span]

\* the part of a detail page below the spec tables
LogisticSamples ==
    {[payments |-> <<>>, delivery |-> Missing, merchant |-> Missing,
      rating |-> Missing, reviews |-> Missing, badges |-> <<>>]}
    \cup
    {[payments |-> <<TagWith("data-lazy-class", <<"payment-icon", " ", "visa">>),
                     TagWith("class", <<"payment-icon", " ", "mastercard">>),
                     TagWith("data-lazy-class", <<"payment-icon", " ", "visa">>),
                     Tag(<<>>)>>,
      delivery |-> Tag(<<"Anticipated delivery: ", "Nov", " ", "10">>),
      merchant |-> Tag(<<"Watch", " ", "Co">>),
      rating |-> Tag(<<"4.9">>), reviews |-> Tag(<<"120">>),
      badges |-> <<BadgeButton([a \in {"data-content"} |-> <<"html">>],
                               Tag(<<"Trusted", " ", "Seller">>)),
                   BadgeButton([a \in {"data-content"} |-> <<"html">>], Missing)>>
                 \o more] :
        more \in {<<>>, <<BadgeButton(<<>>, Missing)>>}}

\* the detail pages the site may serve
DetailPages ==
    {[tables |-> <<first>> \o more, payments |-> l.payments, delivery |-> l.delivery,
      merchant |-> l.merchant, rating |-> l.rating, reviews |-> l.reviews,
      badges |-> l.badges] :
        first \in UNION {[1..n -> RowSamples] : n \in 0..MaxRows},
        more \in {<<>>, <<<<<<Tag(<<"Price">>), Tag(<<"Top">>)>>>>>>},
        l \in LogisticSamples}

\* the listing nodes whose detail page is looked at
DetailNodes ==
    {n \in ListingNodes :
        /\ DOMAIN n.attrs \in {{}, ListingAttrs}
        /\ n.attrs \in [DOMAIN n.attrs -> {<<"123">>, <<"/rolex/x.htm">>, <<"Rolex">>}]
        /\ n.title = Missing /\ n.description = Missing /\ n.shipping = Missing
        /\ n.carousel = <<>>
        /\ n.tooltip = TagWith("data-content", <<"This dealer is from ", "Japan">>)}

NoPage == [tables |-> <<>>, payments |-> <<>>, delivery |-> Missing, merchant |-> Missing,
           rating |-> Missing, reviews |-> Missing, badges |-> <<>>]

\* Chrono24._get_standard_listing_as_json(listing_html)
GetStandardListing ==
    /\ job.pc = "call"
    /\ job.op = "standard"
    /\ \E first \in merchant_names :
          job' = [job EXCEPT !.pc = "returned",
                             !.record = StandardListing_json(job.html, first)]
    /\ UNCHANGED <<http, session, load, gen, siteTotal, yielded, loads, faulted,
                   outstanding>>

\* Chrono24._get_detailed_listing_as_json(listing_html), get_html having
\* returned job.page
GetDetailedListing ==
    /\ job.pc = "call"
    /\ job.op = "detail"
    /\ \E first \in merchant_names :
          LET res == _get_detailed_listing_as_json(job.html, job.page, first)
          IN  job' = [job EXCEPT !.pc = IF res.exc = "none" THEN "returned" ELSE "raised",
                                 !.exc = res.exc, !.record = res.dict]
    /\ UNCHANGED <<http, session, load, gen, siteTotal, yielded, loads, faulted,
                   outstanding>>

InitRecords ==
    /\ http = IdleHttp
    /\ session = NoSession
    /\ load = NoLoad
    /\ gen = NoGen
    /\ siteTotal = 0
    /\ yielded = <<>>
    /\ loads = <<>>
    /\ faulted = FALSE
    /\ outstanding = 0
    /\ \/ \E n \in ListingNodes :
             job = [pc |-> "call", op |-> "standard", html |-> n, page |-> NoPage,
                    exc |-> "none", record |-> <<>>]
       \/ \E n \in DetailNodes, d \in DetailPages :
             job = [pc |-> "call", op |-> "detail", html |-> n, page |-> d,
                    exc |-> "none", record |-> <<>>]

NextRecords == GetStandardListing \/ GetDetailedListing

SpecRecords == InitRecords /\ [][NextRecords]_vars

-----------------------------------------------------------------------------
(* Properties of the records, under SpecRecords *)

\* C11: every standard record has exactly the twelve keys id, url,
\* manufacturer, certification_status, title, description, price,
\* shipping_price, location, merchant_name, badge and image_urls, whatever
\* attributes and sub-nodes the listing node has or lacks.
C11_StandardKeySet ==
    (job.pc = "returned" /\ job.op = "standard") =>
        DOMAIN job.record =
            {<<"id">>, <<"url">>, <<"manufacturer">>,
             <<"certification", "_", "status">>, <<"title">>, <<"description">>,
             <<"price">>, <<"shipping", "_", "price">>, <<"location">>,
             <<"merchant", "_", "name">>, <<"badge">>, <<"image", "_", "urls">>}

\* the record of a listing node with no attribute and no sub-node
C11_Witness ==
    /\ job.pc = "returned"
    /\ job.op = "standard"
    /\ DOMAIN job.html.attrs = {}
    /\ ~job.html.title.present /\ ~job.html.price.present
    /\ ~job.html.shipping.present /\ ~job.html.tooltip.present
    /\ job.html.carousel = <<>>
    /\ Cardinality(DOMAIN job.record) = 12

\* C12: the key set of every detail record strictly contains the key set of
\* the standard record of the same listing, whatever the detail page holds.
C12_DetailKeysStrictSuperset ==
    (job.pc = "returned" /\ job.op = "detail") =>
        \A first \in merchant_names :
            LET standard == DOMAIN StandardListing_json(job.html, first)
            IN  /\ standard \subseteq DOMAIN job.record
                /\ standard # DOMAIN job.record

\* the detail record of a page whose only table has no row
C12_Witness ==
    /\ job.pc = "returned"
    /\ job.op = "detail"
    /\ job.page.tables = <<<<>>>>
    /\ Cardinality(DOMAIN job.record) = 17

\* C19: every detail record has the keys available_payments,
\* anticipated_delivery, merchant_name, merchant_rating, merchant_reviews and
\* merchant_badges.
C19_LogisticalKeys ==
    (job.pc = "returned" /\ job.op = "detail") =>
        {<<"available", "_", "payments">>, <<"anticipated", "_", "delivery">>,
         <<"merchant", "_", "name">>, <<"merchant", "_", "rating">>,
         <<"merchant", "_", "reviews">>, <<"merchant", "_", "badges">>}
            \subseteq DOMAIN job.record

\* C23: a detail record is the standard record of the listing overlaid with
\* the detail mapping: a key of the detail mapping (merchant_name, or a spec
\* row named like a standard key, such as location) has the detail page's
\* value, every other standard key keeps the standard value, and there is
\* no further key.
C23_DetailRecordIsUnion ==
    (job.pc = "returned" /\ job.op = "detail") =>
        \E first \in merchant_names :
            LET standard == StandardListing_json(job.html, first)
                detailed == DetailedListing_json(job.page).dict
            IN  /\ DOMAIN job.record = DOMAIN standard \cup DOMAIN detailed
                /\ \A k \in DOMAIN detailed : job.record[k] = detailed[k]
                /\ \A k \in DOMAIN standard \ DOMAIN detailed :
                      job.record[k] = standard[k]
                /\ job.record[<<"merchant", "_", "name">>] =
                      [type |-> "str", v |-> get_html_tag_as_text(job.page.merchant)]

\* a spec row named Location replaces the location of the standard record,
\* and the merchant name of the detail page that of the listing
C23_Witness ==
    /\ job.pc = "returned"
    /\ job.op = "detail"
    /\ job.page.tables[1] =
          <<<<Tag(<<"Location">>), Tag(<<"40", " ", "mm", "\n", "Try it on">>)>>>>
    /\ job.page.merchant.present
    /\ job.record[<<"location">>] = [type |-> "str", v |-> <<"40", " ", "mm">>]
    /\ job.record[<<"merchant", "_", "name">>] =
          [type |-> "str", v |-> <<"Watch", " ", "Co">>]
    /\ job.record[<<"id">>] = [type |-> "str", v |-> <<"123">>]

\* C24: the scan of the spec rows of a detail page does not fail on a row
\* that has no cell: such a row gives no entry and the scan goes on.
C24_RowWithoutCellIsSkipped ==
    (/\ job.op = "detail"
     /\ job.pc # "call"
     /\ \E t \in 1..Len(job.page.tables) :
           \E r \in 1..Len(job.page.tables[t]) : Len(job.page.tables[t][r]) = 0) =>
        job.exc # "IndexError"

\* C25: in a standard record a text field whose attribute or node is
\* missing or blank has the value "null", and no string value is empty.
C25_MissingTextIsNull ==
    (job.pc = "returned" /\ job.op = "standard") =>
        LET null == [type |-> "str", v |-> <<"null">>]
            blank(a) == a \notin DOMAIN job.html.attrs
                        \/ job.html.attrs[a] \in {<<>>, <<" ">>}
        IN  /\ blank("data-article-id") => job.record[<<"id">>] = null
            /\ blank("href") => job.record[<<"url">>] = null
            /\ blank("data-manufacturer") => job.record[<<"manufacturer">>] = null
            /\ ~job.html.title.present => job.record[<<"title">>] = null
            /\ ~job.html.badge.present => job.record[<<"badge">>] = null
            /\ \A k \in DOMAIN job.record :
                  job.record[k].type = "str" => job.record[k].v # <<>>

-----------------------------------------------------------------------------
(* Properties of the page loads of a stream, under Spec *)

\* C22: a stream that met a page n > 1, within its page bound, that has no
\* listings (the container absent on the last try of the load, or present and
\* empty) ends normally after the records of pages 1..n-1.
C22_EmptyPageEndsStream ==
    (gen.pc \in {"done", "raised"} /\ gen.page_number > 1
     /\ PageNodes(siteTotal, gen.page_number) = 0
     /\ gen.env \in {"page", "no_container"})
        => /\ gen.pc = "done"
           /\ Len(yielded) = (gen.page_number - 1) * page_size

\* C26: the probe next(listings.htmls) of a page load takes nothing from the
\* page the walker iterates: the first record yielded after page p was loaded
\* is that of the first listing node of page p, and the first detail request
\* of page p is for that node.
C26_ProbeConsumesNothing ==
    /\ \A p \in 1..Len(loads) :
          Len(yielded) > (p - 1) * page_size
              => yielded[(p - 1) * page_size + 1].id = Node(p, 1)
    /\ (gen.pc = "detailing" /\ Len(yielded) = (gen.page_number - 1) * page_size)
          => (gen.pos = 1 /\ http.url.n = Node(gen.page_number, 1))

\* the first record of page 2 has just been yielded
C26_Witness ==
    /\ gen.pc = "suspended"
    /\ gen.page_number = 2
    /\ gen.pos = 1
    /\ Len(yielded) = page_size + 1
    /\ yielded[page_size + 1].id = Node(2, 1)

C29_OnlyAttributeErrorRetried ==
    /\ load.env \in {"zero", "nomatch"}
          => (load.pc = "raised" /\ load.exc = "NoListingsFoundException")
    /\ load.env = "exhausted"
          => (load.pc = "raised" /\ load.exc = "RequestException")
    /\ (load.pc = "fetching" /\ load.attempts >= 1)
          => load.env \in {"absent", "no_container"}
    /\ (gen.pc = "raised" /\ gen.pos = 0 /\ gen.env \in {"zero", "nomatch", "exhausted"})
          => /\ gen.exc = IF gen.env = "exhausted" THEN "RequestException"
                          ELSE "NoListingsFoundException"
             /\ Len(yielded) = (gen.page_number - 1) * page_size

\* page 2 reported no results on its third try, after two tries without
\* the container
C29_Witness ==
    /\ load.ctx = "stream"
    /\ load.page = 2
    /\ load.pc = "raised"
    /\ load.attempts = 2
    /\ load.exc = "NoListingsFoundException"

-----------------------------------------------------------------------------
(* Termination: direct get_response calls and a session with its stream *)

InitCalls == Init \/ InitFetch

NextCalls ==
    \/ Construct \/ InitResolved \/ InitResolveFailed
    \/ HttpSend \/ HttpReceive
    \/ LoadResponse \/ LoadFetchFailed \/ InitCounted
    \/ StartStream \/ PullFirst \/ Pull \/ Loaded
    \/ DetailFetched \/ DetailFailed
    \/ DirectCall \/ DirectDone

SpecCalls == InitCalls /\ [][NextCalls]_vars

\* tenacity makes the first attempt before it asks stop_after_attempt
AtLeastOne(n) == IF n < 1 THEN 1 ELSE n

\* the steps a get_response frame has left at most: two per attempt it may
\* still make, one for the caller to take its result
HttpRank(h) ==
    CASE h.pc = "attempt" -> 2 * (AtLeastOne(h.max_attempts) - h.attempt_number) + 3
      [] h.pc = "inflight" -> 2 * (AtLeastOne(h.max_attempts) - h.attempt_number) + 2
      [] h.pc \in {"returned", "raised"} -> 1
      [] OTHER -> 0

\* the rank of a get_response frame just entered by the library
HttpMax == 2 * DEFAULT_MAX_ATTEMPTS + 1

\* the steps a page load has left at most, its running fetch not counted
LoadRank(l) ==
    CASE l.pc = "fetching" -> (l.max_attempts - l.attempts) * (HttpMax + 1)
      [] l.pc \in {"returned", "returned_none", "raised"} -> 1
      [] OTHER -> 0

\* the rank of a page load just started, with its first fetch
LoadMax == LISTINGS_MAX_ATTEMPTS * (HttpMax + 1) + HttpMax

\* the steps one listing of a page takes at most
NodeRank == HttpMax + 2

\* the steps one page takes at most: its load and its listings
PageRank == LoadMax + page_size * NodeRank + 2

\* the steps a stream has left at most, its running load and fetch not counted
StreamRank(g, count) ==
    LET left == (g.stop - 1 - g.page_number) * PageRank + 1
    IN  CASE g.pc = "none" -> _total_page_count(count) * PageRank + 3
          [] g.pc = "created" -> _total_page_count(count) * PageRank + 2
          [] g.pc = "loading" -> left + page_size * NodeRank + 1
          [] g.pc = "detailing" -> left + (g.nodes - g.pos) * NodeRank + 1
          [] g.pc = "suspended" -> left + (g.nodes - g.pos) * NodeRank
          [] OTHER -> 0

\* the largest count a session of the model may read
MaxCount == MaxPages * page_size + 1

\* the steps the construction of a session has left at most, before its
\* running load and fetch
SessionRank(s) ==
    LET stream == _total_page_count(MaxCount) * PageRank + 4
    IN  CASE s.pc = "none" -> stream + LoadMax + HttpMax + 2
          [] s.pc = "resolving" -> stream + LoadMax + 1
          [] s.pc = "counting" -> stream
          [] OTHER -> 0

\* a variant: the number of steps the running call, construction or stream
\* has left at most
Rank ==
    SessionRank(session) + HttpRank(http) + LoadRank(load)
        + (IF session.pc = "ready" THEN StreamRank(gen, session.count) ELSE 0)

\* the bounds of C21 on every state, with one attempt at least per call
C21_Bounds ==
    /\ http.requests <= AtLeastOne(http.max_attempts)
    /\ http.attempt_number <= AtLeastOne(http.max_attempts)
    /\ load.attempts <= LISTINGS_MAX_ATTEMPTS
    /\ load.pc = "fetching" => load.attempts < LISTINGS_MAX_ATTEMPTS
    /\ Len(loads) <= session.count \div page_size + 1
    /\ Rank >= 0

\* C21 as the claim states it: no get_response call makes more than
\* max_attempts requests, no page load more than 8 tries, no stream more than
\* floor(count / page_size) + 1 page loads.
C21_AtMostMaxAttempts ==
    /\ http.requests <= http.max_attempts
    /\ load.attempts <= LISTINGS_MAX_ATTEMPTS
    /\ Len(loads) <= session.count \div page_size + 1

\* C21, amended: every get_response call makes at most max(1, max_attempts)
\* requests, every page load at most 8 tries, every stream at most
\* floor(count / page_size) + 1 page loads, and every step other than the
\* start of a new direct get_response call lowers a natural-number variant:
\* with every request answered, each call, construction and stream ends.
C21_Terminates ==
    [][/\ C21_Bounds'
       /\ (http.pc = "idle" /\ session.pc = "direct") \/ Rank' < Rank]_vars

\* a stream asked for its last page and the load gave up after 8 tries of
\* one request each
C21_Witness ==
    /\ load.ctx = "stream"
    /\ load.pc = "returned_none"
    /\ load.attempts = LISTINGS_MAX_ATTEMPTS
    /\ Len(loads) = session.count \div page_size + 1
    /\ Len(loads) >= 2

-----------------------------------------------------------------------------
(* Two streams over one session, pulled in any interleaving, while the site *)
(* may change between two pulls                                             *)

\* the totals of the site with two streams: one listing, or one full page
\* and one listing
StreamsTotals == {1, page_size + 1}

\* the streams the caller makes first and second
FirstInputs == {<<"standard", None>>}
SecondInputs == {<<"detail", 2>>}

\* the caller leaves a running stream for the other one within its first
\* SwitchWindow records, or when it is over
SwitchWindow == 2

\* a generator object the caller holds and is not running: its frame, and
\* what it has handed over and asked for so far
Parked(g, ys, ls, changed) ==
    [pc |-> "streams", gen |-> g, yielded |-> ys, loads |-> ls, changed |-> changed]

\* a = session.search(..); b = session.search_detail(..): two generators
OpenStreams ==
    /\ session.pc = "ready"
    /\ gen.pc = "none"
    /\ job.gen.pc = "none"
    /\ \E a \in FirstInputs, b \in SecondInputs :
          /\ gen' = [NoGen EXCEPT !.pc = "created", !.kind = a[1], !.limit = a[2]]
          /\ job' = Parked([NoGen EXCEPT !.pc = "created", !.kind = b[1],
                                         !.limit = b[2]],
                           <<>>, <<>>, job.changed)
    /\ UNCHANGED <<http, session, load, siteTotal, yielded, loads, faulted, outstanding>>

\* the caller turns to its other generator: the running one is suspended at
\* a yield, not started, or over
Switch ==
    /\ gen.pc \in {"created", "suspended", "done", "raised"}
    /\ gen.pc = "suspended" => Len(yielded) <= SwitchWindow
    /\ job.gen.pc \in {"created", "suspended"}
    /\ gen' = job.gen
    /\ yielded' = job.yielded
    /\ loads' = job.loads
    /\ job' = Parked(gen, yielded, loads, job.changed)
    /\ UNCHANGED <<http, session, load, siteTotal, faulted, outstanding>>

\* listings are added to or withdrawn from the site between two calls
SiteChanges ==
    /\ session.pc = "ready"
    /\ http.pc = "idle"
    /\ ~job.changed
    /\ \E t \in StreamsTotals \ {siteTotal} : siteTotal' = t
    /\ job' = [job EXCEPT !.changed = TRUE]
    /\ UNCHANGED <<http, session, load, gen, yielded, loads, faulted, outstanding>>

InitStreams ==
    /\ http = IdleHttp
    /\ session = NoSession
    /\ load = NoLoad
    /\ gen = NoGen
    /\ siteTotal \in StreamsTotals
    /\ yielded = <<>>
    /\ loads = <<>>
    /\ faulted = FALSE
    /\ outstanding = 0
    /\ job = Parked(NoGen, <<>>, <<>>, FALSE)

NextStreams ==
    \/ Construct \/ InitResolved \/ InitResolveFailed
    \/ HttpSend \/ HttpReceive
    \/ LoadResponse \/ LoadFetchFailed \/ InitCounted
    \/ OpenStreams \/ Switch \/ SiteChanges
    \/ PullFirst \/ Pull \/ Loaded
    \/ DetailFetched \/ DetailFailed

SpecStreams == InitStreams /\ [][NextStreams]_vars

\* C30: consuming two streams of one session in any interleaving never
\* changes the url or the count of the session; the page bound of each stream
\* is floor(count / page_size) + 1 for the count read at construction, also
\* when page 1 as the stream fetched it again reports another total; each
\* stream asks for its own pages 1, 2, ... and counts its own records, the
\* record a stream has just yielded is of its own kind and the next listing
\* node of its own walk, and a pull on one stream leaves the other as it was.
C30_StreamsLeaveSessionAlone ==
    [][LET bound == session.count \div page_size + 1
           own(g, ys, ls) ==
               /\ g.pc \notin {"none", "created"}
                     => (g.stop = bound + 1 /\ g.page_number = Len(ls))
               /\ Len(ls) <= bound
               /\ \A i \in 1..Len(ls) : ls[i] = i
               /\ (g.pc = "done" /\ g.limit = None) => Len(ls) = bound
               /\ g.num_listings_yielded =
                     IF g.pc = "suspended" THEN Len(ys) - 1 ELSE Len(ys)
               /\ Len(ys) > 0 =>
                     /\ ys[Len(ys)].detailed = (g.kind = "detail")
                     /\ ys[Len(ys)].id = Node(((Len(ys) - 1) \div page_size) + 1,
                                              ((Len(ys) - 1) % page_size) + 1)
       IN  /\ session.pc = "ready" => session' = session
           /\ own(gen', yielded', loads')
           /\ own(job'.gen, job'.yielded, job'.loads)
           /\ \/ job.gen.pc = "none"
              \/ job'.gen = job.gen /\ job'.yielded = job.yielded
                                    /\ job'.loads = job.loads
              \/ job'.gen = gen /\ job'.yielded = yielded /\ job'.loads = loads
                                /\ gen' = job.gen]_vars

\* the session read count 1; the site then grew to 121; the search() stream,
\* left for the search_detail() stream and taken up again, ended after the
\* 120 listings of page 1 as fetched again, with one page load
C30_Witness ==
    /\ job.changed
    /\ session.count = 1
    /\ gen.pc = "done"
    /\ gen.limit = None
    /\ gen.count = page_size + 1
    /\ loads = <<1>>
    /\ Len(yielded) = page_size
    /\ Len(job.yielded) >= 1

====
